---- MODULE Spec2Model ----
(***************************************************************************)
(* Vehicle membership service (src/app/main.py): a FastAPI process that,   *)
(* in its lifespan handler, builds a pybloom_live BloomFilter(capacity=    *)
(* 1000, error_rate=0.1) from the MongoDB collection (seeding 1000 sample  *)
(* plates when the collection is empty), assigns it to app.state.bloom and *)
(* then serves check_vehicle / get_vehicles / health_check.                *)
(*                                                                         *)
(* A document of the collection is identified by an integer; its           *)
(* 'vehicle_number' string is VehicleNumber(id), a sequence of code        *)
(* points.  Ids >= 0 are plates in the format of lines 48-51, ids < 0 are  *)
(* other strings a pre-populated collection may hold.                      *)
(*                                                                         *)
(* BloomFilter is the pybloom_live class the source imports (line 8): its  *)
(* sizing, add and __contains__ are modelled as that class computes them.  *)
(* Its salted md5 digest is replaced by a 16-bit polynomial digest per     *)
(* slice (Chunk): deterministic, total, and reduced modulo bits_per_slice  *)
(* exactly as the library reduces each unpacked digest word.               *)
(***************************************************************************)
EXTENDS Integers, Sequences, FiniteSets, TLC

VARIABLES
    collection,       \* documents of db[mongo_collection], in cursor order
    pc,               \* position of the process: lifespan steps, then serving
    bloom,            \* the BloomFilter object created at line 42, or NoBloom
    cursor,           \* documents the find() cursor of line 56 has yet to yield
    added,            \* documents the load loop has passed to bloom.add
    app_state_bloom,  \* app.state.bloom: "unset" or a reference to bloom
    assignments,      \* number of assignments to app.state.bloom so far
    seeded,           \* whether lines 45-54 ran
    error,            \* exception that ended lifespan, or "none"
    answers,          \* statuses check_vehicle has returned, per queried id
    last,             \* the operation that produced the current state
    writes            \* store changes made by other clients so far

vars == <<collection, pc, bloom, cursor, added, app_state_bloom, assignments,
          seeded, error, answers, last, writes>>

----------------------------------------------------------------------------
(* Program constants *)

Capacity == 1000
ErrorRateInv == 10
SampleSize == 1000
\* math.log(1 / 0.1) and math.log(2) ** 2, math.log(2), scaled by 10^5
LnErrorRateInvE5 == 230259
Ln2SquaredE5 == 48045
Ln2E5 == 69315

(* Bounds of the model *)

MaxSmallLen == 2       \* longest pre-populated small collection
NumSampleChoices == 2  \* outcomes of the random sample generator explored
MaxStoreWrites == 1    \* store changes by other clients after startup
OverCapacity == 38     \* different plates beyond Capacity in the large collections

----------------------------------------------------------------------------
(* Strings *)

Range(s) == {s[i] : i \in 1..Len(s)}

CeilDiv(a, b) == (a + b - 1) \div b

RECURSIVE Str(_)
\* str(n) of a non-negative int, as f"{n}" formats it
Str(n) == IF n < 10 THEN <<48 + n>> ELSE Str(n \div 10) \o <<48 + (n % 10)>>

\* strings a pre-populated collection may hold besides plates: "", "AE-B" with
\* U+00C4, and the single character U+20AC
OtherStrings == << <<>>, <<196, 45, 66>>, <<8364>> >>

\* the plate built by lines 48-51 from its random choices
Plate(l1, l2, d1, d2, l3, l4, num) ==
    <<65 + l1, 65 + l2, 45, 49 + d1, 49 + d2, 45, 65 + l3, 65 + l4, 45>> \o Str(num)

VehicleNumber(id) ==
    IF id < 0 THEN OtherStrings[-id]
    ELSE LET q  == id \div 9000
             q1 == q \div 26
             q2 == q1 \div 26
             q3 == q2 \div 9
             q4 == q3 \div 9
             q5 == q4 \div 26
         IN  Plate(q5 % 26, q4 % 26, q3 % 9, q2 % 9, q1 % 26, q % 26,
                   1000 + (id % 9000))

\* str.encode('utf-8') of one code point
Utf8(cp) ==
    IF cp < 128 THEN <<cp>>
    ELSE IF cp < 2048 THEN <<192 + (cp \div 64), 128 + (cp % 64)>>
    ELSE <<224 + (cp \div 4096), 128 + ((cp \div 64) % 64), 128 + (cp % 64)>>

RECURSIVE Encode(_)
\* str.encode('utf-8')
Encode(s) == IF s = <<>> THEN <<>> ELSE Utf8(Head(s)) \o Encode(Tail(s))

----------------------------------------------------------------------------
(* pybloom_live.BloomFilter *)

NoBloom == [num_slices |-> 0, bits_per_slice |-> 0, num_bits |-> 0,
            capacity |-> 0, count |-> 0, bitarray |-> {}]

\* mutant: the logarithm rounded down instead of up
NumSlicesFloor == CHOOSE s \in 0..30 : 2^s <= ErrorRateInv /\ 2^(s+1) > ErrorRateInv

\* int(math.ceil(math.log(1.0 / error_rate, 2)))
NumSlices == CHOOSE s \in 0..30 : 2^s >= ErrorRateInv /\ (s = 0 \/ 2^(s-1) < ErrorRateInv)

\* int(math.ceil(capacity * abs(math.log(error_rate)) / (num_slices * math.log(2) ** 2)))
BitsPerSlice == CeilDiv(Capacity * LnErrorRateInvE5, NumSlices * Ln2SquaredE5)

\* BloomFilter(capacity=1000, error_rate=0.1)
NewBloom == [num_slices |-> NumSlices, bits_per_slice |-> BitsPerSlice,
             num_bits |-> NumSlices * BitsPerSlice,
             capacity |-> Capacity, count |-> 0, bitarray |-> {}]

DigestMod == 65536
DigestMult == 31
DigestMix == 25173
DigestInc == 13849
DigestSalt == 7919

RECURSIVE Fold(_, _, _, _)
Fold(key, i, h, mult) ==
    IF i > Len(key) THEN h
    ELSE Fold(key, i + 1, (h * mult + key[i] + 1) % DigestMod, mult)

Mix(h) == (h * DigestMix + DigestInc) % DigestMod

Stir(h) == (h + (h \div 256) * (h % 256)) % DigestMod

\* the slice-th 16-bit word of the salted digest of key
Chunk(key, slice) ==
    Mix(Stir(Mix(Fold(key, 1, (DigestSalt * (slice + 1)) % DigestMod,
                      DigestMult + 2 * slice))))

\* make_hashes(key): one index per slice, each uint % bits_per_slice
Hashes(b, key) == [s \in 0..(b.num_slices - 1) |-> Chunk(key, s) % b.bits_per_slice]

\* the bit-array indices add and __contains__ touch: offset + k per slice
Positions(b, key) ==
    LET h == Hashes(b, key)
    IN  {s * b.bits_per_slice + h[s] : s \in 0..(b.num_slices - 1)}

\* BloomFilter.__contains__
Contains(b, key) == Positions(b, key) \subseteq b.bitarray

\* BloomFilter.add raises IndexError("BloomFilter is at capacity")
AtCapacity(b) == b.count > b.capacity

\* mutant: the slice offset is not added to the index
AddNoOffset(b, key) ==
    LET h == Hashes(b, key)
        p == {h[s] : s \in 0..(b.num_slices - 1)}
    IN  [b EXCEPT !.bitarray = b.bitarray \cup p,
                  !.count = IF p \subseteq b.bitarray THEN b.count ELSE b.count + 1]

\* mutant: the bit array is overwritten by the key's bits instead of or-ed
AddOverwrite(b, key) ==
    [b EXCEPT !.bitarray = Positions(b, key), !.count = b.count + 1]

\* BloomFilter.add, when it does not raise
Add(b, key) ==
    LET found_all_bits == Positions(b, key) \subseteq b.bitarray
    IN  [b EXCEPT !.bitarray = b.bitarray \cup Positions(b, key),
                  !.count = IF found_all_bits THEN b.count ELSE b.count + 1]

\* vehicle['vehicle_number'].encode('utf-8') / vehicle.vehicle_to_check.encode('utf-8')
Key(id) == Encode(VehicleNumber(id))

----------------------------------------------------------------------------
(* Inputs *)

\* the i-th of the 1000 sample plates, for outcome c of the random generator:
\* outcome 0 draws 1000 different plates, the others repeat plates
SamplePlate(c, i) ==
    IF c = 0 THEN i - 1 ELSE 137 * c + ((7 * i) % (SampleSize \div (c + 1)))

\* vehicles, as built by the loop of lines 46-52
Sample(c) == [i \in 1..SampleSize |-> SamplePlate(c, i)]

\* n documents with n different plates
Consecutive(n) == [i \in 1..n |-> i - 1]

SmallPool == {-2, -1, 5}

SmallCollections ==
    UNION {[1..n -> SmallPool] : n \in 1..MaxSmallLen}

Reverse(s) == [i \in 1..Len(s) |-> s[Len(s) + 1 - i]]

\* collections of more different plates than the capacity: in one order, with
\* one document repeated, and in the opposite order
BigCollections ==
    {Consecutive(Capacity + 1),
     Consecutive(Capacity + OverCapacity),
     Consecutive(Capacity + OverCapacity) \o <<0>>,
     Reverse(Consecutive(Capacity + OverCapacity))}

InitialCollections == {<<>>} \cup SmallCollections \cup BigCollections

\* identifiers clients ask about
QueryIds == SmallPool \cup {1017}

NoResponse == [op |-> "none", arg |-> <<>>, status |-> "", vehicles |-> <<>>]

----------------------------------------------------------------------------
(* The process *)

Init ==
    /\ collection \in InitialCollections
    /\ pc = "create"
    /\ bloom = NoBloom
    /\ cursor = <<>>
    /\ added = {}
    /\ app_state_bloom = "unset"
    /\ assignments = 0
    /\ seeded = FALSE
    /\ error = "none"
    /\ answers = [q \in QueryIds |-> {}]
    /\ last = NoResponse
    /\ writes = 0

\* mutant: the sample is inserted whatever the collection holds
CollectionAlwaysEmpty == TRUE

\* mutant: the sample is never inserted
CollectionNeverEmpty == FALSE

\* line 44: collection.count_documents({}) == 0
CollectionIsEmpty == Len(collection) = 0

\* mutant: the filter is stored in the app state before the loop has run
LoadLoopSkipped == TRUE

\* the for loop of line 56 has no document left
LoadLoopDone == cursor = <<>>

\* requests are routed to the handlers once lifespan has reached its yield
Serving == pc = "serving"

\* line 42
lifespan_create ==
    /\ pc = "create"
    /\ bloom' = NewBloom
    /\ pc' = "count"
    /\ last' = [NoResponse EXCEPT !.op = "lifespan_create"]
    /\ UNCHANGED <<collection, cursor, added, app_state_bloom, assignments,
                   seeded, error, answers, writes>>

\* lines 44-54 with an empty collection, then the find() of line 56
lifespan_seed ==
    /\ pc = "count"
    /\ CollectionIsEmpty
    /\ \E c \in 0..(NumSampleChoices - 1) :
          /\ collection' = collection \o Sample(c)
          /\ cursor' = collection'
    /\ seeded' = TRUE
    /\ pc' = "load"
    /\ last' = [NoResponse EXCEPT !.op = "lifespan_seed"]
    /\ UNCHANGED <<bloom, added, app_state_bloom, assignments, error, answers, writes>>

\* line 44 with a non-empty collection, then the find() of line 56
lifespan_find ==
    /\ pc = "count"
    /\ ~CollectionIsEmpty
    /\ cursor' = collection
    /\ pc' = "load"
    /\ last' = [NoResponse EXCEPT !.op = "lifespan_find"]
    /\ UNCHANGED <<collection, bloom, added, app_state_bloom, assignments,
                   seeded, error, answers, writes>>

\* lines 56-58: one iteration of the load loop
lifespan_load ==
    /\ pc = "load"
    /\ ~LoadLoopDone
    /\ LET vehicle == Head(cursor)
           vehicle_to_add == Key(vehicle)
       IN  IF AtCapacity(bloom)
           THEN /\ pc' = "aborted"
                /\ error' = "IndexError"
                /\ UNCHANGED <<bloom, cursor, added>>
           ELSE /\ bloom' = Add(bloom, vehicle_to_add)
                /\ cursor' = Tail(cursor)
                /\ added' = added \cup {vehicle}
                /\ UNCHANGED <<pc, error>>
    /\ last' = [NoResponse EXCEPT !.op = "lifespan_load"]
    /\ UNCHANGED <<collection, app_state_bloom, assignments, seeded, answers, writes>>

\* lines 44 and 56: the store cannot be reached or its cursor fails
lifespan_store_error ==
    /\ pc \in {"count", "load"}
    /\ pc' = "aborted"
    /\ error' = "PyMongoError"
    /\ last' = [NoResponse EXCEPT !.op = "lifespan_store_error"]
    /\ UNCHANGED <<collection, bloom, cursor, added, app_state_bloom, assignments,
                   seeded, answers, writes>>

\* lines 59-64
lifespan_publish ==
    /\ pc = "load"
    /\ LoadLoopDone
    /\ app_state_bloom' = "bloom"
    /\ assignments' = assignments + 1
    /\ pc' = "serving"
    /\ last' = [NoResponse EXCEPT !.op = "lifespan_publish"]
    /\ UNCHANGED <<collection, bloom, cursor, added, seeded, error, answers, writes>>

\* mutant: the handler looks the identifier up in the collection
CheckStatusFromStore(vehicle_to_check) ==
    IF \E i \in 1..Len(collection) : Key(collection[i]) = vehicle_to_check
    THEN "yes" ELSE "no"

\* line 85: vehicle_to_check in app.state.bloom
CheckStatus(vehicle_to_check) ==
    IF app_state_bloom = "unset" THEN "AttributeError"
    ELSE IF Contains(bloom, vehicle_to_check) THEN "yes" ELSE "no"

\* mutant: the handler tests membership with bloom.add
CheckEffectAdd(vehicle_to_check) == Add(bloom, vehicle_to_check)

\* line 85 reads the filter and leaves it as it is
CheckEffect(vehicle_to_check) == bloom

\* lines 81-88
check_vehicle(q) ==
    /\ Serving
    /\ LET vehicle_to_check == Key(q)
           status == CheckStatus(vehicle_to_check)
       IN  /\ answers' = [answers EXCEPT ![q] = @ \cup {status}]
           /\ last' = [op |-> "check_vehicle", arg |-> <<q>>, status |-> status,
                       vehicles |-> <<>>]
           /\ bloom' = CheckEffect(vehicle_to_check)
    /\ UNCHANGED <<collection, pc, cursor, added, app_state_bloom, assignments,
                   seeded, error, writes>>

\* lines 90-96
get_vehicles ==
    /\ Serving
    /\ last' = [op |-> "get_vehicles", arg |-> <<>>, status |-> "",
                vehicles |-> collection]
    /\ UNCHANGED <<collection, pc, bloom, cursor, added, app_state_bloom,
                   assignments, seeded, error, answers, writes>>

\* lines 98-101
health_check ==
    /\ Serving
    /\ last' = [op |-> "health_check", arg |-> <<>>, status |-> "ok",
                vehicles |-> <<>>]
    /\ UNCHANGED <<collection, pc, bloom, cursor, added, app_state_bloom,
                   assignments, seeded, error, answers, writes>>

\* another client of the MongoDB collection inserts a document
store_insert(q) ==
    /\ Serving
    /\ writes < MaxStoreWrites
    /\ collection' = Append(collection, q)
    /\ writes' = writes + 1
    /\ last' = [NoResponse EXCEPT !.op = "store_insert", !.arg = <<q>>]
    /\ UNCHANGED <<pc, bloom, cursor, added, app_state_bloom, assignments,
                   seeded, error, answers>>

\* another client of the MongoDB collection deletes the first document
store_delete ==
    /\ Serving
    /\ writes < MaxStoreWrites
    /\ collection # <<>>
    /\ collection' = Tail(collection)
    /\ writes' = writes + 1
    /\ last' = [NoResponse EXCEPT !.op = "store_delete", !.arg = <<Head(collection)>>]
    /\ UNCHANGED <<pc, bloom, cursor, added, app_state_bloom, assignments,
                   seeded, error, answers>>

\* line 65: the process shuts down and lifespan resumes after its yield
lifespan_shutdown ==
    /\ Serving
    /\ pc' = "stopped"
    /\ last' = [NoResponse EXCEPT !.op = "lifespan_shutdown"]
    /\ UNCHANGED <<collection, bloom, cursor, added, app_state_bloom, assignments,
                   seeded, error, answers, writes>>

Next ==
    \/ lifespan_create
    \/ lifespan_seed
    \/ lifespan_find
    \/ lifespan_load
    \/ lifespan_store_error
    \/ lifespan_publish
    \/ \E q \in QueryIds : check_vehicle(q)
    \/ get_vehicles
    \/ health_check
    \/ \E q \in QueryIds : store_insert(q)
    \/ store_delete
    \/ lifespan_shutdown

Spec == Init /\ [][Next]_vars

----------------------------------------------------------------------------
(* Properties *)

\* the documents of the find() snapshot of line 56
Snapshot == added \cup Range(cursor)

\* the bit array of a filter into which exactly the records of S were inserted
ExpectedBits(S) == UNION {Positions(NewBloom, Key(r)) : r \in S}

StoreOps == {"store_insert", "store_delete"}

\* C1: no false negatives. Whatever check_vehicle has answered so far for an
\* identifier the load loop added to the filter, it has only ever answered "yes".
NoFalseNegatives ==
    \A q \in QueryIds : (q \in added /\ answers[q] # {}) => answers[q] = {"yes"}

\* an added identifier has been asked about, answered "yes", and asked about
\* again after the store changed
NoFalseNegativesWitness ==
    /\ writes > 0
    /\ last.op = "check_vehicle"
    /\ last.arg[1] \in added
    /\ last.status = "yes"

\* C2: all-or-nothing publication. app.state.bloom is assigned only when the
\* load loop has consumed the whole snapshot of the store and every record of
\* it is in the filter; check_vehicle is answered only from an assigned filter;
\* a lifespan that aborted has assigned nothing.
AllOrNothingPublication ==
    /\ [](pc = "aborted" => app_state_bloom = "unset")
    /\ [](app_state_bloom = "bloom" => cursor = <<>> /\ error = "none")
    /\ [][/\ (app_state_bloom' # app_state_bloom) =>
               /\ cursor = <<>>
               /\ added = Range(collection)
               /\ bloom.bitarray = ExpectedBits(Range(collection))
          /\ (last'.op = "check_vehicle") =>
               /\ app_state_bloom = "bloom"
               /\ last'.status \in {"yes", "no"}]_vars

\* a query is answered from a filter built from several records
AllOrNothingWitness ==
    /\ last.op = "check_vehicle"
    /\ app_state_bloom = "bloom"
    /\ Cardinality(added) > 1

\* C3 (as claimed): no insertion of the build pass fails, however many
\* different records the store holds.
InsertionAlwaysSucceeds == error # "IndexError"

\* C4: the published filter is read-only. Once app.state.bloom is assigned no
\* step changes the filter object or the reference, and the reference has
\* been assigned exactly once.
PublishedFilterReadOnly ==
    /\ [](assignments <= 1)
    /\ [](app_state_bloom = "bloom" <=> assignments = 1)
    /\ [][app_state_bloom = "bloom" =>
            /\ bloom' = bloom
            /\ app_state_bloom' = app_state_bloom
            /\ assignments' = assignments]_vars

\* all three handlers have run against the published filter: a query was
\* answered earlier and the last request was get_vehicles
PublishedFilterWitness ==
    /\ app_state_bloom = "bloom"
    /\ last.op = "get_vehicles"
    /\ \E q \in QueryIds : answers[q] # {}
    /\ bloom.bitarray # {}

\* C5 (as claimed): no step of the service changes the collection.
StoreNeverWritten ==
    [][collection' # collection => last'.op \in StoreOps]_vars

\* C5 (amended): the service changes the collection only at startup, when the
\* collection is empty: it inserts the 1000 sample records.
StoreWrittenOnlyBySeeding ==
    [][(collection' # collection /\ last'.op \notin StoreOps) =>
          /\ last'.op = "lifespan_seed"
          /\ pc = "count"
          /\ collection = <<>>
          /\ Len(collection') = SampleSize]_vars

\* the service started on an empty store, seeded it and listed it
StoreWrittenWitness ==
    /\ seeded
    /\ last.op = "get_vehicles"
    /\ Len(last.vehicles) = SampleSize

\* C6: empty-store startup. Seeding happens exactly when the collection is
\* empty; when startup completes after seeding, the collection holds the 1000
\* sample records and each is in the filter (so check_vehicle answers "yes"
\* for it); when startup completes without seeding, the collection is the
\* non-empty one found and the filter holds exactly its records.
EmptyStoreStartup ==
    /\ [](seeded => \A q \in QueryIds \cap added : answers[q] \subseteq {"yes"})
    /\ [][/\ (last'.op = "lifespan_seed") <=> (pc = "count" /\ collection = <<>> /\ pc' # "aborted")
          /\ (last'.op = "lifespan_find") => (collection' = collection /\ ~seeded')
          /\ (pc = "load" /\ pc' = "serving") =>
               IF seeded
               THEN /\ Len(collection) = SampleSize
                    /\ \A i \in 1..Len(collection) : Contains(bloom, Key(collection[i]))
               ELSE /\ collection # <<>>
                    /\ added = Range(collection)
                    /\ bloom.bitarray = ExpectedBits(Range(collection))]_vars

\* after a seeded startup a sample record was asked about and answered "yes"
EmptyStoreStartupWitness ==
    /\ seeded
    /\ pc = "serving"
    /\ \E q \in QueryIds : q \in Range(collection) /\ answers[q] = {"yes"}

\* the sizes the textbook formulas give for n = 1000, p = 0.1:
\* m = ceil(-(n ln p) / (ln 2)^2), k = round((m / n) ln 2)
FormulaM == CeilDiv(Capacity * LnErrorRateInvE5, Ln2SquaredE5)
FormulaK == (2 * FormulaM * Ln2E5 + Capacity * 100000) \div (2 * Capacity * 100000)

BuildDependsOnlyOnSet ==
    [][(pc = "load" /\ pc' # "load" /\ error' # "PyMongoError") =>
          /\ pc' = "serving"
          /\ bloom'.bitarray = ExpectedBits(Snapshot')]_vars

\* C9: bit monotonicity. No step clears a bit of the filter or forgets an
\* added record.
BitsOnlySet ==
    [][bloom.bitarray \subseteq bloom'.bitarray /\ added \subseteq added']_vars

\* bits were set during the build and requests were then served
BitsOnlySetWitness ==
    /\ pc = "serving"
    /\ Cardinality(bloom.bitarray) > NumSlices
    /\ last.op = "check_vehicle"
    /\ writes > 0

\* C10: stable answers. All check_vehicle calls so far with one identifier
\* returned the same status, "yes" or "no", whatever was served in between
\* and whatever happened to the store.
AnswersStable ==
    \A q \in QueryIds :
        /\ answers[q] \subseteq {"yes", "no"}
        /\ Cardinality(answers[q]) <= 1

\* an identifier inserted into the store after startup is still answered "no"
AnswersStableWitness ==
    /\ last.op = "check_vehicle"
    /\ last.status = "no"
    /\ last.arg[1] \in Range(collection)
    /\ writes > 0

====
